---- MODULE Spec2Model ----
(***************************************************************************)
(* AbortControllerPool and abortSignalUtils.                               *)
(*                                                                         *)
(* The pool keeps AbortControllers in a plain JavaScript object            *)
(* (abortControllers = {}), indexed by the execution id.  The model keeps  *)
(* the two parts of that object a property access can reach: its own       *)
(* properties and its prototype.  JavaScript runs every call to            *)
(* completion, so the pool operations are atomic, except that              *)
(* controller.abort() dispatches the 'abort' event synchronously: the      *)
(* listeners of the signal run inside safeAbort, between its abort() call  *)
(* and its remove(id) call, and they may call back into the pool.          *)
(*                                                                         *)
(* The module also covers load() of DomoLoader and AppDBLoader, and the    *)
(* arguments DesktopCommander_MCP.getTools starts its server with.         *)
(***************************************************************************)
EXTENDS Integers, Sequences, FiniteSets, TLC

\* Number of AbortControllers the model lets the program construct.
MaxHandles == 2

\* Number of concurrently live executions the model goes up to; the load the
\* specification expects is 10,000.
MaxLive == 64

\* The ids the callers pass.  "A" and "B" are ordinary ids; "constructor" names
\* a member every object inherits from Object.prototype; "__proto__" names the
\* accessor of Object.prototype that reads and replaces the prototype.
Keys == {"A", "B", "constructor", "__proto__"}

\* The listeners callers attach to a signal's 'abort' event.
Observers == {"o1"}

Handles == 1..MaxHandles

\* What a property read yields when no property is found.
Undefined == 0

\* A value found on the prototype chain that is no AbortController (the
\* Object function for "constructor", Object.prototype for "__proto__"): it is
\* truthy and has no abort method.
InheritedMember == -1

IsController(v) == v \in Handles

VARIABLES
    pool,       \* abortControllers: [own: id -> controller or Undefined, proto]
    ctl,        \* every AbortController constructed so far: aborted, listeners, calls
    minted,     \* how many AbortControllers have been constructed
    frame,      \* the abort() call in progress (its listeners are being run), if any;
                \* fired: it is the call that set the flag and dispatches the event
    last,       \* the call that returned last: op, id, the controller it made or
                \* aborted, raised (an error reached its caller), warned (one was caught)
    current,    \* per id, the controller of the latest add(id, c) not followed by remove(id)
    mintedFor,  \* per controller, the id whose create(id) constructed it
    maxListeners,  \* EventEmitter.defaultMaxListeners, the limit of every event source
    running,    \* the ids of the executions the engine has started and not completed
    live,       \* how many executions are live, each listening on a shared event source
    uncaught,   \* the errors listeners threw, which the dispatch of the event handed
                \* to the process as uncaught exceptions: [h, kind] of the call
    orphaned,   \* the controllers an add(id, c) found under id and overwrote
    loader,     \* the DomoLoader and AppDBLoader instances: accessToken and the
                \* progress of load()
    mcp         \* DesktopCommander_MCP: the credential's allowedDirectories and the
                \* args getTools started the server with

vars == <<pool, ctl, minted, frame, last, current, mintedFor, maxListeners, running, live,
          uncaught, orphaned, loader, mcp>>

\* What the calls of the pool never touch.
engine == <<running, live, uncaught, loader, mcp>>

----------------------------------------------------------------------------
\* The program's functions, as functions of the state they read.

\* EventEmitter.defaultMaxListeners as Node sets it when the process starts.
NodeDefaultMaxListeners == 10

\* The limit configureAbortSignalListeners sets.
ConfiguredMaxListeners == 20

\* configureAbortSignalListeners(): EventEmitter.defaultMaxListeners = 20 and
\* process.setMaxListeners(20), whatever the limit m was.
configureAbortSignalListeners(m) == ConfiguredMaxListeners

\* a createAbortController that configures the limit for every controller
limitConfiguredPerController(m) == ConfiguredMaxListeners

\* The limit after createAbortController(): the function sets no limit ("we
\* configure it globally").
limitAfterCreateAbortController(m) == m

\* new AbortController(): not aborted, no listeners.
createAbortController == [aborted |-> FALSE, listeners |-> <<>>, calls |-> [o \in Observers |-> 0]]

\* abortControllers = {}: no own property, prototype Object.prototype.
EmptyPool == [own |-> [k \in Keys |-> Undefined], proto |-> Undefined]

\* Object.prototype.hasOwnProperty.call(this.abortControllers, id)
hasOwnProperty(p, id) == p.own[id] # Undefined

\* What this.abortControllers[id] finds on the prototype chain when the object
\* has no own property id.
Inherited(p, id) ==
    IF id = "__proto__"
    THEN (IF p.proto = Undefined THEN InheritedMember ELSE p.proto)
    ELSE IF id = "constructor" THEN InheritedMember ELSE Undefined

\* get(id): return this.abortControllers[id]
get(p, id) == IF hasOwnProperty(p, id) THEN p.own[id] ELSE Inherited(p, id)

\* add that keeps an entry already present under id
addIfAbsent(p, id, c) ==
    IF id = "__proto__"
    THEN (IF p.proto = Undefined THEN [p EXCEPT !.proto = c] ELSE p)
    ELSE (IF p.own[id] = Undefined THEN [p EXCEPT !.own[id] = c] ELSE p)

\* add that registers the controller under the id "B" as well
addAlsoUnderB(p, id, c) ==
    IF id = "__proto__"
    THEN [p EXCEPT !.proto = c, !.own["B"] = c]
    ELSE [p EXCEPT !.own[id] = c, !.own["B"] = c]

\* add(id, abortController): this.abortControllers[id] = abortController.
\* An assignment to "__proto__" runs the setter inherited from Object.prototype:
\* it replaces the prototype and creates no own property.
add(p, id, c) ==
    IF id = "__proto__"
    THEN [p EXCEPT !.proto = c]
    ELSE [p EXCEPT !.own[id] = c]

\* remove that resets the whole pool (this.abortControllers = {})
removeAll(p, id) == IF hasOwnProperty(p, id) THEN [own |-> [k \in Keys |-> Undefined], proto |-> Undefined] ELSE p

\* remove(id): delete the own property, if there is one.
remove(p, id) ==
    IF hasOwnProperty(p, id) THEN [p EXCEPT !.own[id] = Undefined] ELSE p

\* an abort() that flips the flag on every call
controllerAbortToggle(c) == [c EXCEPT !.aborted = ~@]

\* controller.abort(): sets signal.aborted; a second call does nothing.
controllerAbort(c) == IF c.aborted THEN c ELSE [c EXCEPT !.aborted = TRUE]

\* an abort() that dispatches the event on every call
toNotifyEveryTime(c) == c.listeners

\* an abort() that fails to call the listener registered first
toNotifySkipsFirst(c) == IF c.aborted \/ c.listeners = <<>> THEN <<>> ELSE Tail(c.listeners)

\* The listeners controller.abort() is about to run: those registered at the
\* first abort, in registration order; none on a signal already aborted.
toNotify(c) == IF c.aborted THEN <<>> ELSE c.listeners

Idle == [kind |-> "idle", id |-> "", h |-> Undefined, fired |-> FALSE, pending |-> <<>>]

\* safeAbort without its try/catch: the TypeError reaches the caller
safeAbortUncaught(p, c, id) ==
    LET controller == get(p, id) IN
    IF controller = Undefined
    THEN [outcome |-> "absent", ctl |-> c, frame |-> Idle, raised |-> FALSE, warned |-> FALSE]
    ELSE IF ~IsController(controller)
    THEN [outcome |-> "raised", ctl |-> c, frame |-> Idle, raised |-> TRUE, warned |-> FALSE]
    ELSE [outcome |-> "aborting",
          ctl |-> [c EXCEPT ![controller] = controllerAbort(c[controller])],
          frame |-> [kind |-> "safeAbort", id |-> id, h |-> controller,
                     fired |-> ~c[controller].aborted,
                     pending |-> toNotify(c[controller])],
          raised |-> FALSE, warned |-> FALSE]

\* safeAbort whose catch block warns and throws the error again
safeAbortRethrow(p, c, id) ==
    LET r == safeAbortUncaught(p, c, id) IN
    IF r.raised THEN [r EXCEPT !.warned = TRUE] ELSE r

\* safeAbort with the remove(id) in a finally block: it runs after the catch too
safeAbortRemovesAnyway(p, c, id) ==
    LET r == safeAbortRethrow(p, c, id) IN
    IF r.outcome = "raised"
    THEN [outcome |-> "caught", ctl |-> c,
          frame |-> [kind |-> "safeAbort", id |-> id, h |-> Undefined, fired |-> FALSE,
                     pending |-> <<>>],
          raised |-> FALSE, warned |-> TRUE]
    ELSE r

\* safeAbort(pool, id) up to the point where controller.abort() starts to run
\* the listeners.  outcome "absent": the lookup was falsy, nothing is done;
\* "caught": controller.abort is not a function, the TypeError is caught and
\* warned; "aborting": abort() has set the flag and the remove(id) is pending.
safeAbort(p, c, id) ==
    LET controller == get(p, id) IN
    IF controller = Undefined
    THEN [outcome |-> "absent", ctl |-> c, frame |-> Idle, raised |-> FALSE, warned |-> FALSE]
    ELSE IF ~IsController(controller)
    THEN [outcome |-> "caught", ctl |-> c, frame |-> Idle, raised |-> FALSE, warned |-> TRUE]
    ELSE [outcome |-> "aborting",
          ctl |-> [c EXCEPT ![controller] = controllerAbort(c[controller])],
          frame |-> [kind |-> "safeAbort", id |-> id, h |-> controller,
                     fired |-> ~c[controller].aborted,
                     pending |-> toNotify(c[controller])],
          raised |-> FALSE, warned |-> FALSE]

\* safeAbort after controller.abort() has returned: abortControllerPool.remove(id)
safeAbortRemove(p, f) == IF f.kind = "safeAbort" THEN remove(p, f.id) ELSE p

----------------------------------------------------------------------------
\* DomoLoader (Domo.ts) and AppDBLoader (AppDB.ts).  Both classes have the same
\* load(), authenticate() and query method; init() of the node constructs a
\* loader for every run and calls load() on it once.

LoaderKinds == {"Domo", "AppDB"}

\* The loaders of one class that are alive at the same time.
Instances == {"l1", "l2"}

\* The access tokens the token endpoint hands out.
Tokens == {"t1"}

\* An accessToken that is not set, and the access_token of a token response
\* that carries none: both are falsy.
NoToken == ""

\* The messages of the errors load() fails with.
AuthenticationFailed == "Failed to authenticate with Domo API"

TokenNotAvailable == "Access token not available. Authentication may have failed."

QueryFailed(kind) ==
    IF kind = "Domo" THEN "Failed to query Domo dataset" ELSE "Failed to query AppDB collection"

\* new DomoLoader(...), new AppDBLoader(...): accessToken is not set.  pc is the
\* progress of load(), sent the requests load() has sent, granted whether the
\* token request was answered with an access token.
NewLoader ==
    [accessToken |-> NoToken, pc |-> "constructed", sent |-> <<>>, granted |-> FALSE,
     error |-> ""]

\* authenticate(): the token request goes out (axios.post to oauth/token).
authenticate(l) == [l EXCEPT !.pc = "authenticating", !.sent = Append(@, "token")]

\* authenticate(), the token request was answered: this.accessToken =
\* tokenData.access_token.
authenticated(l, t) == [l EXCEPT !.accessToken = t, !.granted = t # NoToken]

\* authenticate(), the token request failed: the catch throws the
\* authentication error, and load() fails with it.
authenticateFailed(l) == [l EXCEPT !.pc = "failed", !.error = AuthenticationFailed]

\* a query method without the check of accessToken
queryDataUnguarded(kind, l) == [l EXCEPT !.pc = "querying", !.sent = Append(@, "query")]

\* queryData() / queryCollection() up to its request: it throws when
\* accessToken is falsy, and sends the query request otherwise.
queryData(kind, l) ==
    IF l.accessToken = NoToken
    THEN [l EXCEPT !.pc = "failed", !.error = TokenNotAvailable]
    ELSE [l EXCEPT !.pc = "querying", !.sent = Append(@, "query")]

\* queryData() / queryCollection(), the query request failed.
queryFailed(kind, l) == [l EXCEPT !.pc = "failed", !.error = QueryFailed(kind)]

----------------------------------------------------------------------------
\* DesktopCommander_MCP.getTools.  A string is a sequence of characters.

\* The length of the allowedDirectories strings the model goes up to.
MaxChars == 4

\* The characters of an allowedDirectories string: path characters, the comma
\* that separates the entries, and white space.
Chars == {"a", "b", ",", " "}

\* process.cwd()
Cwd == <<"c", "w", "d">>

\* getNodeModulesPackagePath('@wonderwhy-er/desktop-commander/dist/index.js')
PackagePath == <<"i", "n", "d", "e", "x">>

\* The flag getTools puts before the directories.
Flag == <<"-", "v">>

\* The credential parameter allowedDirectories: optional, so it may not be set.
NoCredential == [set |-> FALSE, value |-> <<>>]

STRINGS(n) == UNION {[1..k -> Chars] : k \in 0..n}

Credentials == {NoCredential} \cup {[set |-> TRUE, value |-> s] : s \in STRINGS(MaxChars)}

\* String.prototype.split(','): the pieces between the commas, empty ones too.
RECURSIVE split(_)
split(s) ==
    IF s = <<>> THEN << <<>> >>
    ELSE LET rest == split(Tail(s)) IN
         IF Head(s) = ","
         THEN << <<>> >> \o rest
         ELSE << <<Head(s)>> \o Head(rest) >> \o Tail(rest)

RECURSIVE trimStart(_)
trimStart(s) == IF s # <<>> /\ Head(s) = " " THEN trimStart(Tail(s)) ELSE s

RECURSIVE trimEnd(_)
trimEnd(s) ==
    IF s # <<>> /\ s[Len(s)] = " " THEN trimEnd(SubSeq(s, 1, Len(s) - 1)) ELSE s

\* String.prototype.trim()
trim(s) == trimEnd(trimStart(s))

\* Array.prototype.join(sep): the elements with sep between them, one string.
RECURSIVE join(_, _)
join(a, sep) ==
    IF a = <<>> THEN <<>>
    ELSE IF Len(a) = 1 THEN a[1]
    ELSE a[1] \o sep \o join(Tail(a), sep)

\* allowedDirectories.split(',').map(trim).filter(dir => dir.length > 0)
entries(s) ==
    LET pieces == split(s) IN
    SelectSeq([i \in 1..Len(pieces) |-> trim(pieces[i])], LAMBDA dir : Len(dir) > 0)

\* const directories = allowedDirectories ? ... : [process.cwd()]: a parameter
\* that is not set, or is the empty string, is falsy.
directories(credential) ==
    IF credential.set /\ credential.value # <<>>
    THEN entries(credential.value)
    ELSE <<Cwd>>

\* serverParams.args: [packagePath, '-v', directories.join('-v')]
args(credential) == <<PackagePath, Flag, join(directories(credential), Flag)>>

\* The node before getTools has run for the credential.
NoServer(credential) == [credential |-> credential, started |-> FALSE, args |-> <<>>]

----------------------------------------------------------------------------
Returned(op, id, h) ==
    [op |-> op, id |-> id, h |-> h, raised |-> FALSE, warned |-> FALSE]

\* The state after construction, but for the credential of DesktopCommander_MCP.
Constructed ==
    /\ pool = EmptyPool
    /\ ctl = [h \in Handles |-> createAbortController]
    /\ minted = 0
    /\ frame = Idle
    /\ last = Returned("init", "", Undefined)
    /\ current = [k \in Keys |-> Undefined]
    /\ mintedFor = [h \in Handles |-> ""]
    /\ maxListeners = NodeDefaultMaxListeners
    /\ running = {}
    /\ live = 0
    /\ uncaught = {}
    /\ orphaned = {}
    /\ loader = [k \in LoaderKinds |-> [i \in Instances |-> NewLoader]]

Init == Constructed /\ mcp = NoServer(NoCredential)

\* No call is in progress: the next call comes from a new task.
AtTopLevel == frame.kind = "idle"

\* Bookkeeping of a call add(id, c) and of a call remove(id), whoever makes it.
NoteAdd(id, c) ==
    /\ current' = [current EXCEPT ![id] = c]
    /\ orphaned' = orphaned \cup (IF IsController(get(pool, id)) THEN {get(pool, id)} ELSE {})

NoteRemove(id) == current' = [current EXCEPT ![id] = Undefined]

\* create(id), the operations it is made of.
DoCreate(id) ==
    /\ minted < MaxHandles
    /\ minted' = minted + 1
    /\ ctl' = [ctl EXCEPT ![minted + 1] = createAbortController]
    /\ pool' = add(pool, id, minted + 1)
    /\ mintedFor' = [mintedFor EXCEPT ![minted + 1] = id]
    /\ maxListeners' = limitAfterCreateAbortController(maxListeners)
    /\ NoteAdd(id, minted + 1)

\* AbortControllerPool.create(id)
Create(id) ==
    /\ AtTopLevel
    /\ DoCreate(id)
    /\ last' = Returned("create", id, minted + 1)
    /\ UNCHANGED <<frame, engine>>

\* AbortControllerPool.remove(id)
Remove(id) ==
    /\ AtTopLevel
    /\ pool' = remove(pool, id)
    /\ NoteRemove(id)
    /\ last' = Returned("remove", id, Undefined)
    /\ UNCHANGED <<ctl, minted, frame, mintedFor, maxListeners, engine, orphaned>>

\* AbortControllerPool.get(id)
Get(id) ==
    /\ AtTopLevel
    /\ last' = Returned("get", id, Undefined)
    /\ UNCHANGED <<pool, ctl, minted, frame, current, mintedFor, maxListeners, engine, orphaned>>

\* AbortControllerPool.abort(id): safeAbort(this, id), up to the dispatch of the
\* 'abort' event.  When nothing is aborted the call returns in this step.
Abort(id) ==
    /\ AtTopLevel
    /\ LET r == safeAbort(pool, ctl, id) IN
        /\ ctl' = r.ctl
        /\ frame' = r.frame
        /\ last' = IF r.outcome = "aborting"
                   THEN last
                   ELSE [Returned("abort", id, Undefined) EXCEPT !.raised = r.raised,
                                                                 !.warned = r.warned]
    /\ UNCHANGED <<pool, minted, current, mintedFor, maxListeners, engine, orphaned>>

\* controller.abort() called on the controller itself by whoever holds it
Signal(h) ==
    /\ AtTopLevel
    /\ h \in 1..minted
    /\ ctl' = [ctl EXCEPT ![h] = controllerAbort(ctl[h])]
    /\ frame' = [kind |-> "abort", id |-> "", h |-> h, fired |-> ~ctl[h].aborted,
                 pending |-> toNotify(ctl[h])]
    /\ UNCHANGED <<pool, minted, last, current, mintedFor, maxListeners, engine, orphaned>>

\* signal.addEventListener('abort', o): a listener already registered is not
\* registered twice; on a signal already aborted no event will come.
AddListener(h, o) ==
    /\ AtTopLevel
    /\ h \in 1..minted
    /\ \A i \in 1..Len(ctl[h].listeners) : ctl[h].listeners[i] # o
    /\ ctl' = [ctl EXCEPT ![h].listeners = Append(@, o)]
    /\ UNCHANGED <<pool, minted, frame, last, current, mintedFor, maxListeners, engine, orphaned>>

\* a removeEventListener that leaves the listener on the signal
removeEventListenerKeeps(ls, o) == ls

\* removeEventListener('abort', o): what is left of the listeners ls.
removeEventListener(ls, o) == SelectSeq(ls, LAMBDA x : x # o)

\* signal.removeEventListener('abort', o)
RemoveListener(h, o) ==
    /\ AtTopLevel
    /\ h \in 1..minted
    /\ \E i \in 1..Len(ctl[h].listeners) : ctl[h].listeners[i] = o
    /\ ctl' = [ctl EXCEPT ![h].listeners = removeEventListener(@, o)]
    /\ last' = Returned("removeEventListener", "", h)
    /\ UNCHANGED <<pool, minted, frame, current, mintedFor, maxListeners, engine, orphaned>>

\* The dispatch of the 'abort' event calls the next listener.
Called ==
    /\ frame.kind # "idle"
    /\ frame.pending # <<>>
    /\ frame' = [frame EXCEPT !.pending = Tail(@)]

CountCall(c) == [c EXCEPT ![frame.h].calls[Head(frame.pending)] = @ + 1]

\* The listener only takes note of the cancellation.
NotifyOnly ==
    /\ Called
    /\ ctl' = CountCall(ctl)
    /\ UNCHANGED <<pool, minted, last, current, mintedFor, maxListeners, engine, orphaned>>

\* The listener reacts by deregistering an execution: pool.remove(id).
NotifyRemove(id) ==
    /\ Called
    /\ ctl' = CountCall(ctl)
    /\ pool' = remove(pool, id)
    /\ NoteRemove(id)
    /\ UNCHANGED <<minted, last, mintedFor, maxListeners, engine, orphaned>>

\* The listener reacts by starting an execution: pool.create(id).
NotifyCreate(id) ==
    /\ Called
    /\ minted < MaxHandles
    /\ minted' = minted + 1
    /\ ctl' = [CountCall(ctl) EXCEPT ![minted + 1] = createAbortController]
    /\ pool' = add(pool, id, minted + 1)
    /\ mintedFor' = [mintedFor EXCEPT ![minted + 1] = id]
    /\ maxListeners' = limitAfterCreateAbortController(maxListeners)
    /\ NoteAdd(id, minted + 1)
    /\ UNCHANGED <<last, engine>>

\* controller.abort() has run every listener and returns; safeAbort goes on to
\* abortControllerPool.remove(id) and returns.
AbortReturns ==
    /\ frame.kind # "idle"
    /\ frame.pending = <<>>
    /\ pool' = safeAbortRemove(pool, frame)
    /\ frame' = Idle
    /\ IF frame.kind = "safeAbort"
       THEN /\ NoteRemove(frame.id)
            /\ last' = Returned("abort", frame.id, frame.h)
       ELSE /\ UNCHANGED current
            /\ last' = Returned("signal", "", frame.h)
    /\ UNCHANGED <<ctl, minted, mintedFor, maxListeners, engine, orphaned>>

\* The calls of the tasks, on signals nobody listens to.
Next ==
    \/ \E id \in Keys : Create(id)
    \/ \E id \in Keys : Remove(id)
    \/ \E id \in Keys : Get(id)
    \/ \E id \in Keys : Abort(id)
    \/ \E h \in Handles : Signal(h)
    \/ AbortReturns

Spec == Init /\ [][Next]_vars

\* The same calls on the ids ObsKeys, with listeners on the signals: the
\* listeners run inside abort() and may call back into the pool.
ObsKeys == {"A", "B", "__proto__"}

ObsNext ==
    \/ \E id \in ObsKeys : Create(id)
    \/ \E id \in ObsKeys : Remove(id)
    \/ \E id \in ObsKeys : Get(id)
    \/ \E id \in ObsKeys : Abort(id)
    \/ \E h \in Handles : Signal(h)
    \/ \E h \in Handles, o \in Observers : AddListener(h, o)
    \/ \E h \in Handles, o \in Observers : RemoveListener(h, o)
    \/ NotifyOnly
    \/ \E id \in ObsKeys : NotifyRemove(id)
    \/ \E id \in ObsKeys : NotifyCreate(id)
    \/ AbortReturns

ObsSpec == Init /\ [][ObsNext]_vars

----------------------------------------------------------------------------
\* Vocabulary of the properties.

\* The ids passed to create so far.
everAdded == {mintedFor[h] : h \in 1..minted}

\* The controller a lookup of id yields, Undefined when it yields none.
HandleAt(id) == IF IsController(get(pool, id)) THEN get(pool, id) ELSE Undefined

\* No controller's aborted flag changes in the step.
SameSignals == \A h \in Handles : ctl'[h].aborted = ctl[h].aborted

\* The step in which safeAbort(id) looks up and aborts, and the step in which
\* its abort() has returned and it removes id and returns.
CancelFinds(id) == Abort(id) /\ IsController(get(pool, id))
CancelReturns(id) == AbortReturns /\ frame.kind = "safeAbort" /\ frame.id = id

----------------------------------------------------------------------------
\* C1: abort(K) on an id K that was never passed to create returns in the same
\* step, raises no error to its caller, and leaves the pool and the aborted
\* flag of every controller as they were.
C1_CancelOfUnknownKeyIsNoOp ==
    [][\A id \in Keys :
        (Abort(id) /\ id \notin everAdded) =>
            /\ frame' = Idle
            /\ last'.op = "abort" /\ last'.id = id /\ ~last'.raised
            /\ pool' = pool
            /\ SameSignals]_vars

\* abort(K) has returned for a never-created K whose lookup found an inherited
\* member (the TypeError was caught), while a live controller is registered.
C1_Witness ==
    /\ last.op = "abort" /\ last.id \notin everAdded /\ last.warned
    /\ \E k \in Keys : HandleAt(k) # Undefined /\ ~ctl[HandleAt(k)].aborted

\* C2: when K is registered, abort(K) first sets the aborted flag of the
\* controller registered under K (the entry still in place) and then removes
\* the entry: when it returns the controller is aborted and get(K) is undefined.
C2_CancelSignalsThenRemoves ==
    [][\A id \in Keys :
        /\ CancelFinds(id) =>
            /\ ctl'[get(pool, id)].aborted
            /\ get(pool', id) = get(pool, id)
            /\ frame'.kind = "safeAbort"
        /\ CancelReturns(id) =>
            /\ ctl'[frame.h].aborted
            /\ get(pool', id) = Undefined]_vars

\* C3: abort(A) leaves the controller created under another id B as it was,
\* and leaves it registered under B.
C3_CancelLeavesOtherKeysAlone ==
    [][\A a \in Keys, b \in Keys :
        (/\ a # b
         /\ HandleAt(b) # Undefined
         /\ mintedFor[HandleAt(b)] = b
         /\ CancelFinds(a) \/ CancelReturns(a))
        => (get(pool', b) = get(pool, b) /\ ctl'[HandleAt(b)] = ctl[HandleAt(b)])]_vars

\* abort(A) has aborted A's controller and returned, and another id still
\* holds a controller that is not aborted.
C3_Witness ==
    /\ last.op = "abort" /\ IsController(last.h) /\ ctl[last.h].aborted
    /\ \E b \in Keys \ {last.id} : HandleAt(b) # Undefined /\ ~ctl[HandleAt(b)].aborted

\* C4: a controller that is aborted is aborted in every later state.
C4_SignaledStaysSignaled ==
    [][\A h \in Handles : ctl[h].aborted => ctl'[h].aborted]_vars

\* An abort() on the controller has returned, and the pool's abort is now
\* acting on the same controller again.
C4_Witness ==
    \E h \in 1..minted :
        /\ ctl[h].aborted /\ last.op = "signal" /\ last.h = h
        /\ frame.kind = "safeAbort" /\ frame.h = h


\* C5: an abort() on a controller that is already aborted changes nothing (the
\* flag, the listeners and their call counts, the pool) and runs no listener;
\* no listener is ever called twice, and no call raises an error.
C5_SignalIsIdempotent ==
    /\ [](~last.raised /\ \A h \in Handles, o \in Observers : ctl[h].calls[o] <= 1)
    /\ [][\A h \in Handles :
            /\ (Signal(h) /\ ctl[h].aborted) =>
                  (ctl' = ctl /\ pool' = pool /\ frame'.pending = <<>>)
            /\ (AbortReturns /\ frame.kind = "abort" /\ frame.h = h) =>
                  (ctl' = ctl /\ pool' = pool /\ ctl'[h].aborted)]_vars

\* A second abort() is in progress on a controller whose first abort() has
\* returned and whose listener, still registered, was called once.
C5_Witness ==
    /\ last.op = "signal" /\ frame.kind = "abort" /\ frame.h = last.h
    /\ frame.pending = <<>>
    /\ \E o \in Observers : ctl[frame.h].calls[o] = 1 /\ ctl[frame.h].listeners = <<o>>

\* C6: after remove(K), get(K) is undefined, and an abort(K) called while K's
\* latest create has been followed by a remove aborts no controller created
\* under K.
C6_RemovedKeyIsGone ==
    [][\A id \in Keys :
        /\ Remove(id) => get(pool', id) = Undefined
        /\ (Abort(id) /\ current[id] = Undefined) =>
              \A h \in Handles : mintedFor[h] = id => ctl'[h].aborted = ctl[h].aborted]_vars

\* C7: abort(K) and remove(K) racing on a registered K, in either order or with
\* the remove inside abort's listeners: no call raises; whichever call returns
\* last leaves get(K) undefined; and abort(K) aborts the controller exactly when
\* its lookup still finds it, that is when it came before the remove.
C7_CancelRacingRemove ==
    /\ [](~last.raised)
    /\ [][\A id \in ObsKeys :
            /\ (Remove(id) \/ NotifyRemove(id) \/ CancelReturns(id)) =>
                  get(pool', id) = Undefined
            /\ Abort(id) =>
                  \A h \in Handles :
                      ctl'[h].aborted <=> (ctl[h].aborted \/ (h = current[id]))]_vars

C9_CreateRegistersFreshHandle ==
    (AtTopLevel /\ last.op = "create") =>
        /\ IsController(last.h)
        /\ get(pool, last.id) = last.h
        /\ ~ctl[last.h].aborted
        /\ ctl[last.h].listeners = <<>>
        /\ \A k \in Keys \ {last.id} : get(pool, k) # last.h

\* create(K) has returned a second controller for an id whose first controller
\* was aborted.
C9_Witness ==
    /\ AtTopLevel /\ last.op = "create" /\ last.h = 2
    /\ mintedFor[1] = last.id /\ ctl[1].aborted

\* C10: every id maps to at most one controller: the one of the latest
\* create(K) when no remove(K) has followed it, and none otherwise.
C10_OneHandlePerKey == \A id \in Keys : HandleAt(id) = current[id]

\* C11: get(K) returns the controller registered under K, or undefined when K
\* has no entry, for every id K, and changes neither the pool nor a controller.
C11_GetReturnsRegisteredOrAbsent ==
    [][\A id \in Keys :
        Get(id) => (get(pool, id) = current[id] /\ pool' = pool /\ ctl' = ctl)]_vars

\* C12: remove(K) deletes the entry of K when K holds a controller and changes
\* nothing otherwise; it raises no error, leaves what every other id yields as
\* it was, and changes no controller.
C12_RemoveDeletesOnlyItsEntry ==
    [][\A id \in Keys :
        Remove(id) =>
            /\ HandleAt(id) # Undefined => ~IsController(get(pool', id))
            /\ HandleAt(id) = Undefined => pool' = pool
            /\ ~last'.raised
            /\ \A k \in Keys \ {id} : get(pool', k) = get(pool, k)
            /\ ctl' = ctl]_vars

\* C13: tasks that each use an id of their own and call create, get and remove
\* in any interleaving: every get(K) returns undefined or the controller created
\* under K, never a controller created under another id.
C13_GetSeesOnlyItsOwnKey ==
    [][\A id \in Keys :
        Get(id) =>
            \/ get(pool, id) = Undefined
            \/ IsController(get(pool, id)) /\ mintedFor[get(pool, id)] = id]_vars

\* C14: a listener registered on a controller before its first abort is called
\* exactly once, by that abort: the first abort (by abort() or by the pool's
\* abort(K)) schedules every registered listener, the call returns only when
\* all of them were called, each call takes the listener's count from 0 to 1,
\* and nothing else ever changes a count.
C14_ListenerCalledOnceAtFirstSignal ==
    /\ [](\A h \in Handles, o \in Observers :
            /\ ~ctl[h].aborted => ctl[h].calls[o] = 0
            /\ ctl[h].calls[o] \in {0, 1})
    /\ [][\A h \in Handles :
            /\ (~ctl[h].aborted /\ ctl'[h].aborted) =>
                  (frame'.h = h /\ frame'.pending = ctl[h].listeners)
            /\ (AbortReturns /\ frame.h = h) => frame.pending = <<>>
            /\ \A o \in Observers :
                  ctl'[h].calls[o] # ctl[h].calls[o] =>
                      /\ frame.h = h /\ frame.pending # <<>> /\ Head(frame.pending) = o
                      /\ frame'.pending = Tail(frame.pending)
                      /\ ctl[h].calls[o] = 0 /\ ctl'[h].calls[o] = 1]_vars

\* The pool's abort(K) has aborted a controller and returned, its listener was
\* called once and is still registered, and a later abort() on the same
\* controller is in progress with nothing to call.
C14_Witness ==
    /\ last.op = "abort" /\ IsController(last.h)
    /\ frame.kind = "abort" /\ frame.h = last.h /\ frame.pending = <<>>
    /\ \E o \in Observers : ctl[last.h].calls[o] = 1 /\ ctl[last.h].listeners = <<o>>

\* C15: a listener registered on a controller that is already aborted is
\* called at once, exactly once.
C15_LateListenerCalledAtOnce ==
    [][\A h \in Handles, o \in Observers :
        (AddListener(h, o) /\ ctl[h].aborted) =>
            ctl'[h].calls[o] = ctl[h].calls[o] + 1]_vars

\* C16: in the state that follows an external abort(K) on a registered K, the
\* holder of the controller that create(K) returned reads aborted = TRUE on it
\* while get(K) already returns undefined; the remove(K) the execution then
\* calls leaves get(K) undefined and the controller aborted.
C16_CancelObservableAfterDeregistration ==
    /\ []((AtTopLevel /\ last.op = "abort" /\ IsController(last.h)) =>
            (ctl[last.h].aborted /\ get(pool, last.id) = Undefined))
    /\ [][\A id \in Keys :
            (Remove(id) /\ last.op = "abort" /\ last.id = id /\ IsController(last.h)) =>
                (get(pool', id) = Undefined /\ ctl'[last.h].aborted)]_vars

\* The controllers the pool still holds: those some lookup yields.
Held == {h \in Handles : \E id \in Keys : get(pool, id) = h}

\* C17: whenever every create(K) so far has been followed by a remove(K) or by
\* an abort(K) that found the entry, the pool holds no controller.
C17_NoEntryLeftBehind ==
    (AtTopLevel /\ \A id \in Keys : current[id] = Undefined) => Cardinality(Held) = 0

----------------------------------------------------------------------------
\* The execution engine as the specification describes it (section 6): it
\* calls create(key) when it starts the execution key, never for a key whose
\* execution is still running, and calls remove(key) when the execution
\* completes, on every exit path.  The request layer calls get and abort.

\* The engine starts the execution id: create(id).
Start(id) ==
    /\ AtTopLevel
    /\ id \notin running
    /\ DoCreate(id)
    /\ running' = running \cup {id}
    /\ last' = Returned("create", id, minted + 1)
    /\ UNCHANGED <<frame, live, uncaught, loader, mcp>>

\* The execution id completes (success, error or cancellation): remove(id).
Finish(id) ==
    /\ AtTopLevel
    /\ id \in running
    /\ pool' = remove(pool, id)
    /\ NoteRemove(id)
    /\ running' = running \ {id}
    /\ last' = Returned("remove", id, Undefined)
    /\ UNCHANGED <<ctl, minted, frame, mintedFor, maxListeners, live, uncaught, orphaned,
                   loader, mcp>>

EngineNext ==
    \/ \E id \in Keys : Start(id)
    \/ \E id \in Keys : Finish(id)
    \/ \E id \in Keys : Get(id)
    \/ \E id \in Keys : Abort(id)
    \/ AbortReturns

EngineSpec == Init /\ [][EngineNext]_vars

\* C18: with the engine keeping its obligations, every id that holds a
\* controller in the pool is the id of an execution that has started and has
\* not completed.
C18_PresentKeyIsRunning ==
    \A id \in Keys : HandleAt(id) # Undefined => id \in running

----------------------------------------------------------------------------
\* configureAbortSignalListeners(), called by the server when it starts and,
\* for all the function knows, at any later time.
Configure ==
    /\ AtTopLevel
    /\ maxListeners' = configureAbortSignalListeners(maxListeners)
    /\ last' = Returned("configure", "", Undefined)
    /\ UNCHANGED <<pool, ctl, minted, frame, current, mintedFor, engine, orphaned>>

ConfigNext ==
    \/ Configure
    \/ \E id \in Keys : Create(id)
    \/ \E id \in Keys : Remove(id)
    \/ \E id \in Keys : Get(id)
    \/ \E id \in Keys : Abort(id)
    \/ \E h \in Handles : Signal(h)
    \/ AbortReturns

ConfigSpec == Init /\ [][ConfigNext]_vars

\* C19: only configureAbortSignalListeners changes the listener limit: create
\* (with createAbortController), get, remove and abort leave it as it is; the
\* configuration sets it to the configured value, and a second configuration
\* leaves it there.
C19_LimitSetOnlyByConfiguration ==
    [][/\ maxListeners' # maxListeners =>
            (Configure /\ maxListeners = NodeDefaultMaxListeners)
       /\ Configure => maxListeners' = ConfiguredMaxListeners
       /\ \A id \in Keys :
            (Create(id) \/ Remove(id) \/ Get(id) \/ Abort(id) \/ AbortReturns) =>
                maxListeners' = maxListeners]_vars

\* The configuration has run after controllers were created and aborted
\* through the pool, and the limit is the configured one.
C19_Witness ==
    /\ last.op = "configure" /\ maxListeners = ConfiguredMaxListeners
    /\ minted >= 1 /\ \E h \in 1..minted : ctl[h].aborted

----------------------------------------------------------------------------
\* The load the specification describes (section 5, resource bound): many
\* executions are live at once, and each holds one observer on an event source
\* they share, whose listener limit is the global one.

\* An execution starts and registers its observer on the shared source.
ExecutionStarts ==
    /\ live < MaxLive
    /\ live' = live + 1
    /\ UNCHANGED <<pool, ctl, minted, frame, last, current, mintedFor, maxListeners, running,
                   uncaught, orphaned, loader, mcp>>

\* An execution ends and removes its observer.
ExecutionEnds ==
    /\ live > 0
    /\ live' = live - 1
    /\ UNCHANGED <<pool, ctl, minted, frame, last, current, mintedFor, maxListeners, running,
                   uncaught, orphaned, loader, mcp>>

LoadNext ==
    \/ Configure
    \/ ExecutionStarts
    \/ ExecutionEnds

LoadSpec == Init /\ [][LoadNext]_vars

\* C20: once the limit is configured, the number of observers on the shared
\* event source stays within it under the expected load, so no listener-limit
\* warning is raised.
C20_LimitAboveExpectedLoad ==
    maxListeners = ConfiguredMaxListeners => live <= maxListeners

----------------------------------------------------------------------------
\* Listeners that throw.

\* a dispatch that lets the listener's error out of controller.abort(): the
\* catch of safeAbort takes it (the remove(id) is skipped), a direct caller of
\* abort() gets it
listenerThrowsOutOfAbort(f, l, u) ==
    [frame |-> Idle,
     last |-> [op |-> IF f.kind = "safeAbort" THEN "abort" ELSE "signal",
               id |-> f.id, h |-> f.h,
               raised |-> f.kind # "safeAbort", warned |-> f.kind = "safeAbort"],
     uncaught |-> u]

\* A listener throws while controller.abort() dispatches the 'abort' event: the
\* dispatch catches the error, hands it to the process as an uncaught
\* exception, and goes on to the next listener.  Nothing comes out of abort(),
\* so the catch of safeAbort is not entered.
listenerThrows(f, l, u) ==
    [frame |-> [f EXCEPT !.pending = Tail(@)],
     last |-> l,
     uncaught |-> u \cup {[h |-> f.h, kind |-> f.kind]}]

\* The listener called throws an error.
NotifyRaises ==
    /\ frame.kind # "idle"
    /\ frame.pending # <<>>
    /\ ctl' = CountCall(ctl)
    /\ LET r == listenerThrows(frame, last, uncaught) IN
        /\ frame' = r.frame
        /\ last' = r.last
        /\ uncaught' = r.uncaught
    /\ UNCHANGED <<pool, minted, current, mintedFor, maxListeners, running, live, orphaned,
                   loader, mcp>>

\* The calls of the tasks, with listeners that take note or throw.
ErrNext ==
    \/ \E id \in ObsKeys : Create(id)
    \/ \E id \in ObsKeys : Abort(id)
    \/ \E h \in Handles : Signal(h)
    \/ \E h \in Handles, o \in Observers : AddListener(h, o)
    \/ NotifyOnly
    \/ NotifyRaises
    \/ AbortReturns

ErrSpec == Init /\ [][ErrNext]_vars

\* C21: an error a listener throws while it reacts to the abort never reaches
\* the caller of abort() or of the pool's abort(K): the call in progress goes
\* on, and it returns without an error; nor does the error of an abort call
\* that is itself impossible (the lookup found no controller) reach the caller
\* of abort(K).
C21_ObserverErrorNotPropagated ==
    /\ [](~last.raised)
    /\ [][/\ NotifyRaises =>
                /\ frame'.kind = frame.kind
                /\ frame'.pending = Tail(frame.pending)
                /\ last' = last
                /\ pool' = pool
          /\ (AbortReturns /\ [h |-> frame.h, kind |-> frame.kind] \in uncaught) =>
                /\ ~last'.raised /\ ~last'.warned
                /\ last'.h = frame.h
                /\ frame' = Idle
          /\ \A id \in Keys :
                (Abort(id) /\ get(pool, id) = InheritedMember) =>
                    (~last'.raised /\ last'.op = "abort" /\ frame' = Idle)]_vars

\* The pool's abort(K) has returned without an error, and removed K, after the
\* listener of K's controller threw during that call.
C21_Witness ==
    /\ AtTopLevel
    /\ last.op = "abort" /\ IsController(last.h) /\ ~last.raised
    /\ [h |-> last.h, kind |-> "safeAbort"] \in uncaught
    /\ get(pool, last.id) = Undefined

----------------------------------------------------------------------------
\* The listeners registered on the signal of controller h.
Registered(h) == {ctl[h].listeners[i] : i \in 1..Len(ctl[h].listeners)}

\* C22: a listener taken off a signal by removeEventListener before the signal
\* is aborted is no longer registered on it, and no later abort() or abort(K)
\* calls it: the abort that sets the flag schedules exactly the listeners
\* registered at that moment, an abort in progress only calls listeners that are
\* registered, and a listener's count changes only when it is the one called.
C22_DeregisteredListenerNeverCalled ==
    /\ [](frame.kind # "idle" =>
            \A i \in 1..Len(frame.pending) : frame.pending[i] \in Registered(frame.h))
    /\ [][\A h \in Handles, o \in Observers :
            /\ RemoveListener(h, o) =>
                  /\ o \notin {ctl'[h].listeners[i] : i \in 1..Len(ctl'[h].listeners)}
                  /\ ctl'[h].calls = ctl[h].calls
            /\ (~ctl[h].aborted /\ ctl'[h].aborted /\ o \notin Registered(h)) =>
                  /\ ctl'[h].calls[o] = ctl[h].calls[o]
                  /\ frame'.h = h /\ frame'.fired
                  /\ \A i \in 1..Len(frame'.pending) : frame'.pending[i] # o
            /\ ctl'[h].calls[o] # ctl[h].calls[o] =>
                  (o \in Registered(h) /\ frame.h = h /\ Head(frame.pending) = o)]_vars

\* removeEventListener has taken the only listener off a signal that was not
\* aborted, and the abort that sets the flag of that signal is now in progress
\* through the pool: it has nobody to call, and the listener was never called.
C22_Witness ==
    /\ last.op = "removeEventListener"
    /\ frame.kind = "safeAbort" /\ frame.h = last.h /\ frame.fired
    /\ frame.pending = <<>>
    /\ ctl[frame.h].aborted /\ ctl[frame.h].listeners = <<>>
    /\ \A o \in Observers : ctl[frame.h].calls[o] = 0

----------------------------------------------------------------------------
\* C23: abort(K) removes only the controller it aborted: when a listener has
\* called create(K) while abort(K) was running its listeners, the controller
\* that create(K) registered is still what get(K) yields when abort(K) returns.
C23_CancelRemovesOnlyWhatItSignaled ==
    [][\A id \in ObsKeys :
        (CancelReturns(id) /\ HandleAt(id) # Undefined /\ HandleAt(id) # frame.h) =>
            get(pool', id) = get(pool, id)]_vars

----------------------------------------------------------------------------
\* The controller of the latest create(id), Undefined when there was none.
LatestFor(id) ==
    LET made == {h \in 1..minted : mintedFor[h] = id} IN
    IF made = {} THEN Undefined ELSE CHOOSE h \in made : \A g \in made : g <= h

\* C24: a controller that create(K) overwrote is left as it is: the overwriting
\* create aborts nothing, abort(K) aborts at most the controller of the latest
\* create(K), get and remove abort nothing, so an overwritten controller is
\* aborted, if ever, only by its holder calling abort() on it.
C24_OverwrittenHandleIsOrphaned ==
    [][/\ \A id \in Keys :
            /\ Create(id) =>
                  /\ SameSignals
                  /\ HandleAt(id) # Undefined => HandleAt(id) \in orphaned'
            /\ Abort(id) =>
                  \A h \in Handles :
                      ctl'[h].aborted # ctl[h].aborted =>
                          (h = LatestFor(id) /\ h \notin orphaned)
            /\ (Remove(id) \/ Get(id)) => SameSignals
       /\ AbortReturns => SameSignals
       /\ \A h \in orphaned :
            /\ ctl'[h].aborted # ctl[h].aborted => Signal(h)
            /\ \A id \in Keys : get(pool', id) # h]_vars

\* create(K) overwrote a controller, abort(K) has aborted the controller of the
\* second create(K) and returned, and the overwritten one is not aborted.
C24_Witness ==
    /\ AtTopLevel
    /\ last.op = "abort" /\ last.h = 2 /\ ctl[2].aborted
    /\ mintedFor[1] = last.id /\ mintedFor[2] = last.id
    /\ 1 \in orphaned /\ ~ctl[1].aborted

----------------------------------------------------------------------------
\* Executions that reuse an id (the specification, section 6): an execution
\* calls create(key) when it starts and holds the controller it got; when it
\* completes it calls remove(key) with its own key.  Here a second execution
\* may start under a key whose first execution has not completed.

\* The execution that holds controller h completes: remove(id), with the id it
\* was created under.
Completes(h) ==
    /\ AtTopLevel
    /\ h \in 1..minted
    /\ pool' = remove(pool, mintedFor[h])
    /\ NoteRemove(mintedFor[h])
    /\ last' = Returned("remove", mintedFor[h], h)
    /\ UNCHANGED <<ctl, minted, frame, mintedFor, maxListeners, engine, orphaned>>

ReuseNext ==
    \/ \E id \in Keys : Create(id)
    \/ \E h \in Handles : Completes(h)
    \/ \E id \in Keys : Get(id)
    \/ \E id \in Keys : Abort(id)
    \/ AbortReturns

ReuseSpec == Init /\ [][ReuseNext]_vars

\* C25: the remove(K) of a completing execution deregisters only that
\* execution's own controller: when another execution has created K again in
\* the meantime, its controller is still what get(K) yields after the remove.
C25_RemoveDeregistersOwnHandleOnly ==
    [][\A h \in Handles :
        (/\ Completes(h)
         /\ HandleAt(mintedFor[h]) # Undefined
         /\ HandleAt(mintedFor[h]) # h)
        => get(pool', mintedFor[h]) = get(pool, mintedFor[h])]_vars

----------------------------------------------------------------------------
\* C26: every create constructs a controller of its own (the one create has
\* just returned is the newest, made for the id of that call and for no other),
\* so no two ids yield the same controller, and no id yields a controller that
\* was overwritten.
C26_CreatedHandlesAreDistinct ==
    /\ \A a \in Keys, b \in Keys :
          (a # b /\ HandleAt(a) # Undefined) => HandleAt(a) # HandleAt(b)
    /\ last.op = "create" =>
          /\ last.h = minted
          /\ mintedFor[last.h] = last.id
          /\ \A k \in Keys \ {last.id} : get(pool, k) # last.h
    /\ \A h \in Held : h \in 1..minted /\ h \notin orphaned

\* Two ids are registered at once, each with the controller its own create
\* returned, and the second create has just returned.
C26_Witness ==
    /\ AtTopLevel /\ last.op = "create" /\ last.h = 2
    /\ \E a \in Keys : a # last.id /\ HandleAt(a) = 1 /\ mintedFor[1] = a
    /\ HandleAt(last.id) = 2

----------------------------------------------------------------------------
\* The ids that have an entry: those whose lookup yields a controller.
KeysWithEntry == {k \in Keys : HandleAt(k) # Undefined}

\* The ids whose latest create has not been followed by a remove or by an
\* abort that found the entry.
KeysAddedAndNotRemoved == {k \in Keys : current[k] # Undefined}

\* C27: whenever no call is in progress, the ids that have an entry in the pool
\* are exactly the ids whose latest create was not followed by a remove or by
\* an abort that found the entry; and get changes neither set.
C27_KeySetIsCreatedMinusRemoved ==
    /\ [](AtTopLevel => KeysWithEntry = KeysAddedAndNotRemoved)
    /\ [][\A id \in Keys :
            Get(id) => /\ KeysWithEntry' = KeysWithEntry
                       /\ KeysAddedAndNotRemoved' = KeysAddedAndNotRemoved]_vars

----------------------------------------------------------------------------
\* C28: when the abort call inside abort(K) raises (the lookup yielded
\* something that is no controller), safeAbort catches the error and returns
\* at once: it warns, raises nothing, skips the remove(K), and leaves the pool,
\* what every id yields, and every controller as they were.
C28_FailedCancelLeavesRegistry ==
    [][\A id \in Keys :
        (Abort(id) /\ get(pool, id) # Undefined /\ ~IsController(get(pool, id))) =>
            /\ last'.op = "abort" /\ last'.id = id
            /\ last'.warned /\ ~last'.raised
            /\ frame' = Idle
            /\ pool' = pool
            /\ \A k \in Keys : get(pool', k) = get(pool, k)
            /\ ctl' = ctl
            /\ current' = current]_vars

\* abort(K) has caught the error of its abort call and returned, while two
\* controllers are registered under other ids, neither of them aborted.
C28_Witness ==
    /\ AtTopLevel
    /\ last.op = "abort" /\ last.warned /\ ~last.raised
    /\ get(pool, last.id) = InheritedMember
    /\ Cardinality(Held) = 2
    /\ \A h \in Held : ~ctl[h].aborted

----------------------------------------------------------------------------
\* The document loaders.

\* What the loaders never touch.
poolState ==
    <<pool, ctl, minted, frame, last, current, mintedFor, maxListeners, running, live,
      uncaught, orphaned, mcp>>

\* init(): const loader = new DomoLoader(options), for the next run of the node.
Construct(kind, i) ==
    /\ loader[kind][i].pc \in {"returned", "failed"}
    /\ loader' = [loader EXCEPT ![kind][i] = NewLoader]
    /\ UNCHANGED poolState

\* loader.load(), up to the first await: authenticate() sends the token request.
Load(kind, i) ==
    /\ loader[kind][i].pc = "constructed"
    /\ loader' = [loader EXCEPT ![kind][i] = authenticate(@)]
    /\ UNCHANGED poolState

\* The token request is answered with access_token t (none when t = NoToken):
\* authenticate() stores it and returns, and load() goes on to the query method.
TokenAnswered(kind, i, t) ==
    /\ loader[kind][i].pc = "authenticating"
    /\ loader' = [loader EXCEPT ![kind][i] = queryData(kind, authenticated(@, t))]
    /\ UNCHANGED poolState

\* The token request fails (no response, or a status that is an error).
TokenRefused(kind, i) ==
    /\ loader[kind][i].pc = "authenticating"
    /\ loader' = [loader EXCEPT ![kind][i] = authenticateFailed(@)]
    /\ UNCHANGED poolState

\* The query request is answered: load() returns the documents.
QueryAnswered(kind, i) ==
    /\ loader[kind][i].pc = "querying"
    /\ loader' = [loader EXCEPT ![kind][i].pc = "returned"]
    /\ UNCHANGED poolState

\* The query request fails.
QueryRefused(kind, i) ==
    /\ loader[kind][i].pc = "querying"
    /\ loader' = [loader EXCEPT ![kind][i] = queryFailed(kind, @)]
    /\ UNCHANGED poolState

LoaderNext ==
    \/ \E kind \in LoaderKinds, i \in Instances : Construct(kind, i)
    \/ \E kind \in LoaderKinds, i \in Instances : Load(kind, i)
    \/ \E kind \in LoaderKinds, i \in Instances, t \in Tokens \cup {NoToken} :
            TokenAnswered(kind, i, t)
    \/ \E kind \in LoaderKinds, i \in Instances : TokenRefused(kind, i)
    \/ \E kind \in LoaderKinds, i \in Instances : QueryAnswered(kind, i)
    \/ \E kind \in LoaderKinds, i \in Instances : QueryRefused(kind, i)

LoaderSpec == Init /\ [][LoaderNext]_vars

\* C29: load() of a DomoLoader or an AppDBLoader sends the query request only
\* after its token request was answered with an access token; when the
\* authentication fails (the token request fails, or its answer carries no
\* access token) load() fails with an authentication error and has sent no
\* query request.
C29_QueryOnlyAfterAuthentication ==
    \A kind \in LoaderKinds, i \in Instances :
        LET l == loader[kind][i] IN
        /\ (\E n \in 1..Len(l.sent) : l.sent[n] = "query") =>
              /\ l.granted
              /\ l.accessToken \in Tokens
              /\ l.sent = <<"token", "query">>
        /\ l.pc \in {"querying", "returned"} => l.granted
        /\ (l.pc = "failed" /\ ~l.granted) =>
              /\ l.sent = <<"token">>
              /\ l.error \in {AuthenticationFailed, TokenNotAvailable}
        /\ l.pc = "authenticating" => l.sent = <<"token">>

\* One DomoLoader failed because the answer to its token request carried no
\* access token, one AppDBLoader failed because its token request failed, and
\* the other two loaders have sent their query after they were granted a token.
C29_Witness ==
    /\ loader["Domo"]["l1"].pc = "failed" /\ loader["Domo"]["l1"].error = TokenNotAvailable
    /\ loader["AppDB"]["l1"].pc = "failed" /\ loader["AppDB"]["l1"].error = AuthenticationFailed
    /\ loader["Domo"]["l2"].pc = "returned" /\ loader["Domo"]["l2"].sent = <<"token", "query">>
    /\ loader["AppDB"]["l2"].pc = "querying" /\ loader["AppDB"]["l2"].granted

----------------------------------------------------------------------------
\* DesktopCommander_MCP.

\* getTools(nodeData, options): starts the MCP server with serverParams.
GetTools ==
    /\ ~mcp.started
    /\ mcp' = [mcp EXCEPT !.started = TRUE, !.args = args(mcp.credential)]
    /\ UNCHANGED <<pool, ctl, minted, frame, last, current, mintedFor, maxListeners,
                   running, live, uncaught, orphaned, loader>>

\* The node is set up again for the same credential.
Reset ==
    /\ mcp.started
    /\ mcp' = NoServer(mcp.credential)
    /\ UNCHANGED <<pool, ctl, minted, frame, last, current, mintedFor, maxListeners,
                   running, live, uncaught, orphaned, loader>>

ToolsInit == Constructed /\ mcp \in {NoServer(c) : c \in Credentials}

ToolsNext == GetTools \/ Reset

ToolsSpec == ToolsInit /\ [][ToolsNext]_vars

\* The directories the server is given: each argument that follows a flag.
DirectoriesPassed(a) ==
    LET at == {i \in 1..(Len(a) - 1) : a[i] = Flag} IN
    {a[i + 1] : i \in at}

\* The entries of the list: trimmed, not empty.
EntriesOf(credential) ==
    LET e == entries(credential.value) IN {e[i] : i \in 1..Len(e)}

\* C30: getTools gives the server every directory of the allowedDirectories
\* list, each trimmed, non-empty entry as a directory of its own, whatever the
\* length of the list; a list that is empty or not set gives the current
\* working directory alone.
C30_EveryDirectoryPassedOnItsOwn ==
    mcp.started =>
        DirectoriesPassed(mcp.args) =
            (IF EntriesOf(mcp.credential) = {} THEN {Cwd} ELSE EntriesOf(mcp.credential))

====
